---- MODULE Spec2Model ----
(***************************************************************************)
(* Attendance check-ins of the HR backend: the employee_checkins table,    *)
(* the stored functions create_checkin / update_checkin_status and the     *)
(* request handlers POST /employee-checkins and PUT /employee-checkins/:id *)
(* behind the authenticateToken middleware.                                *)
(*                                                                         *)
(* A request is a process that advances from one awaited store call to the *)
(* next; each store call (one SQL statement or one stored function call)   *)
(* is atomic, and calls of different requests interleave freely.           *)
(* The handler's clock (new Date(), UTC) and the store's clock             *)
(* (CURRENT_DATE / CURRENT_TIME) are one clock, read at different steps.   *)
(***************************************************************************)
EXTENDS Integers, FiniteSets, Sequences, TLC

\* ---------------------------------------------------------------- bounds
MaxDate == 2        \* calendar days 1..MaxDate
MaxId   == 2        \* values the BIGSERIAL sequence may hand out
MaxMinutes == 10000 \* minute counts 0..MaxMinutes-1 given to the Time Formatter
MaxFile == 2        \* names 1..MaxFile multer may give an uploaded file
MaxEmail == 5       \* e-mail addresses 1..MaxEmail (1..3 are those of the stored users)
MaxUser == 6        \* values the id sequence of users may hand out
MaxPage == 4        \* pages 1..MaxPage asked of GET /employees
MaxPerPage == 3     \* page sizes 1..MaxPerPage
MaxTotal == 5       \* counts 0..MaxTotal of matching users

\* request slots: two requests may be in flight together
Reqs  == {1, 2}
Dates == 1..MaxDate

\* times of day (seconds since midnight) the clock can show:
\* 09:00:00, 09:00:45, 09:01:30, 17:30:00
TimesOfDay == {32400, 32445, 32490, 63000}
StartOfDay == {32400}
\* 09:00:00 and 17:30:00
WorkHours == {32400, 63000}
FirstDay == {1}

NULL == -1

\* ------------------------------------------------------------ users table
\* users 1 and 2 are active employees, user 3 is stored but inactive,
\* user 4 is named by a token but no longer stored
StoredUsers == {1, 2, 3}
employee_status(u) == IF u \in {1, 2} THEN "active" ELSE "inactive"

\* bearer credentials a request may carry: none, one that does not verify,
\* or one that verifies and names a user of us
TokensOf(us) ==
    {[kind |-> "none", userId |-> NULL], [kind |-> "invalid", userId |-> NULL]}
    \cup {[kind |-> "valid", userId |-> u] : u \in us}

Types  == {"checkin", "break", "checkout", "lunch"}
PathIds == 1..MaxId

\* query parameters of GET /employee-checkins as sent (NULL: not sent)
PageParams    == {NULL, 2, -2}
PerPageParams == {NULL, 1}
UserIdParams  == {NULL, 1, 2}

VARIABLES
    checkins,   \* rows of table employee_checkins
    nextId,     \* next value of the id sequence (BIGSERIAL)
    now,        \* the clock: <<date, time of day>>
    pc,         \* per request slot: where the handler stands
    req,        \* per request slot: the request and the handler's locals
    resp,       \* per request slot: the response sent
    fmt,        \* the Time Formatter taken alone: its input and its output
    employee_feedbacks,  \* rows of table employee_feedbacks
    employee_documents,  \* rows of table employee_documents
    uploads,    \* the files in ./uploads/documents
    users,      \* rows of table users as POST /employees sees them
    usersSeq,   \* next value of the id sequence of users
    list,       \* GET /employees taken alone: its inputs and its answer
    db,         \* what a migration run has created in the database
    run         \* where the migration run stands

\* the state outside the attendance routes
hrVars == <<employee_feedbacks, employee_documents, uploads, users, usersSeq,
            list, db, run>>

vars == <<checkins, nextId, now, pc, req, resp, fmt, hrVars>>

NoReq  == [route |-> "", token |-> [kind |-> "none", userId |-> NULL],
           user |-> NULL, id |-> NULL, type |-> "", today |-> NULL,
           checkinId |-> NULL,
           page |-> NULL, perPage |-> NULL, userId |-> NULL, total |-> NULL,
           file |-> NULL, email |-> NULL, employeeId |-> <<>>]
NoMeta == [current_page |-> NULL, per_page |-> NULL, total |-> NULL,
           last_page |-> NULL]
NoBody == [id |-> NULL, checkin_date |-> NULL, checkin_time |-> NULL,
           data |-> <<>>, meta |-> NoMeta]
NoResp == [status |-> 0, message |-> "", body |-> NoBody]

\* the Time Formatter has not been given anything
NoFmt == [m |-> NULL, text |-> <<>>]

Response(code, msg) == [status |-> code, message |-> msg, body |-> NoBody]

\* the rows of StoredUsers as POST /employees reads and writes them: id,
\* employee_id (a text) and email (addresses are numbered)
StoredUserRows ==
    {[id |-> 1, employee_id |-> <<"E", "M", "P", "0", "0", "1">>, email |-> 1],
     [id |-> 2, employee_id |-> <<"E", "M", "P", "0", "0", "2">>, email |-> 2],
     [id |-> 3, employee_id |-> <<"E", "M", "P", "0", "0", "3">>, email |-> 3]}

\* ./uploads/documents is empty, no feedback and no document is stored, no
\* list was asked for and a migration run has completed
NoList == [page |-> NULL, perPage |-> NULL, total |-> NULL,
           rows |-> NULL, last_page |-> NULL, from |-> NULL, to |-> NULL]
\* what a migration run creates, in the order it creates it: the tracking
\* table, the schema, the three sample data inserts, the two views and the
\* two functions, and the 'initial_schema' marker row
Created == <<"migrations", "schema", "departments", "teams", "admin",
             "employee_overview", "time_tracking_summary", "create_checkin",
             "update_checkin_status", "initial_schema">>
Migrated == {Created[i] : i \in 1..Len(Created)}

\* migration runs that may be under way together (two instances starting)
Runs == {1, 2}

HrInit ==
    /\ employee_feedbacks = {}
    /\ employee_documents = {}
    /\ uploads = {}
    /\ users = StoredUserRows
    /\ usersSeq = 4
    /\ list = NoList
    /\ db = Migrated
    /\ run = [p \in Runs |-> "exited"]

Init ==
    /\ checkins = {}
    /\ nextId = 1
    /\ now = <<1, 32400>>
    /\ pc = [r \in Reqs |-> "idle"]
    /\ req = [r \in Reqs |-> NoReq]
    /\ resp = [r \in Reqs |-> NoResp]
    /\ fmt = NoFmt
    /\ HrInit

\* ---------------------------------------------------------------- clock
Tick(days, times) ==
    /\ \E d \in days, t \in times :
          /\ \/ d = now[1] /\ t > now[2]
             \/ d = now[1] + 1
          /\ now' = <<d, t>>
    /\ UNCHANGED <<checkins, nextId, pc, req, resp, fmt, hrVars>>

\* ------------------------------------------------- middleware: access gate
authenticateToken_AnyStatus(tok) ==
    IF tok.kind = "none"
    THEN [ok |-> FALSE, user |-> NULL,
          resp |-> Response(401, "Access token required")]
    ELSE IF tok.kind = "invalid"
    THEN [ok |-> FALSE, user |-> NULL, resp |-> Response(403, "Invalid token")]
    ELSE IF {u \in StoredUsers : u = tok.userId} = {}
    THEN [ok |-> FALSE, user |-> NULL,
          resp |-> Response(401, "Invalid token or user deactivated")]
    ELSE [ok |-> TRUE, user |-> tok.userId, resp |-> NoResp]

\* authenticateToken: no token -> 401; jwt.verify throws -> 403; no stored
\* user with that id and employee_status 'active' -> 401; else req.user
authenticateToken(tok) ==
    IF tok.kind = "none"
    THEN [ok |-> FALSE, user |-> NULL,
          resp |-> Response(401, "Access token required")]
    ELSE IF tok.kind = "invalid"
    THEN [ok |-> FALSE, user |-> NULL, resp |-> Response(403, "Invalid token")]
    ELSE IF {u \in StoredUsers : u = tok.userId /\ employee_status(u) = "active"} = {}
    THEN [ok |-> FALSE, user |-> NULL,
          resp |-> Response(401, "Invalid token or user deactivated")]
    ELSE [ok |-> TRUE, user |-> tok.userId, resp |-> NoResp]

\* --------------------------------------------------------- Time Formatter
\* texts are sequences of one-character strings
DigitChar(d) == <<"0", "1", "2", "3", "4", "5", "6", "7", "8", "9">>[d + 1]

RECURSIVE NatText(_)
NatText(n) ==
    IF n < 10 THEN <<DigitChar(n)>>
    ELSE NatText(n \div 10) \o <<DigitChar(n % 10)>>

\* n::TEXT
IntText(n) == IF n < 0 THEN <<"-">> \o NatText(-n) ELSE NatText(n)

\* LPAD(s, len, fill): fills on the left up to len characters, and cuts a
\* longer s down to its first len characters
RECURSIVE LPAD(_, _, _)
LPAD(s, len, fill) ==
    IF Len(s) >= len THEN SubSeq(s, 1, len)
    ELSE LPAD(<<fill>> \o s, len, fill)

\* integer / and % of the store: the quotient is cut towards zero and the
\* remainder has the sign of the dividend
SqlDiv(a, b) == IF a >= 0 THEN a \div b ELSE -((-a) \div b)
SqlMod(a, b) == a - b * SqlDiv(a, b)

\* the expression of the generated columns total_*_hours
HoursText(minutes) ==
    LPAD(IntText(SqlDiv(minutes, 60)), 2, "0") \o <<":">>
        \o LPAD(IntText(SqlMod(minutes, 60)), 2, "0")

Generated_Stale(row) == row

\* GENERATED ALWAYS AS (...) STORED: the store recomputes the three display
\* columns of every row it writes
Generated(row) ==
    [row EXCEPT !.total_working_hours = HoursText(row.total_working_minutes),
                !.total_break_hours = HoursText(row.total_break_minutes),
                !.total_daily_hours = HoursText(row.total_daily_minutes)]

\* ------------------------------------------------ table employee_checkins
NewRow_NoDefaults(id, u, d, t) ==
    [id |-> id, user_id |-> u, checkin_date |-> d, checkin_time |-> t,
     checkout_time |-> NULL, status |-> "checkin", on_break |-> FALSE,
     total_working_minutes |-> NULL, total_break_minutes |-> NULL,
     total_daily_minutes |-> NULL,
     total_working_hours |-> <<>>, total_break_hours |-> <<>>,
     total_daily_hours |-> <<>>,
     created_at |-> <<d, t>>, updated_at |-> <<d, t>>]

\* a freshly inserted row: the columns create_checkin names, the rest from
\* the column defaults
NewRow(id, u, d, t) ==
    [id |-> id, user_id |-> u, checkin_date |-> d, checkin_time |-> t,
     checkout_time |-> NULL, status |-> "checkin", on_break |-> FALSE,
     total_working_minutes |-> 0, total_break_minutes |-> 0,
     total_daily_minutes |-> 0,
     total_working_hours |-> HoursText(0), total_break_hours |-> HoursText(0),
     total_daily_hours |-> HoursText(0),
     created_at |-> <<d, t>>, updated_at |-> <<d, t>>]

UniqueViolation_NoConstraint(rows, u, d) == FALSE

\* UNIQUE(user_id, checkin_date)
UniqueViolation(rows, u, d) ==
    \E c \in rows : c.user_id = u /\ c.checkin_date = d

\* CHECK (status IN ('checkin', 'break', 'checkout'))
StatusCheck(st) == st \in {"checkin", "break", "checkout"}

ExistingCheckin_OpenOnly(rows, u, d) ==
    {c.id : c \in {x \in rows : x.user_id = u /\ x.checkin_date = d
                                   /\ x.status # "checkout"}}

\* SELECT id FROM employee_checkins WHERE user_id = $1 AND checkin_date = $2
ExistingCheckin(rows, u, d) ==
    {c.id : c \in {x \in rows : x.user_id = u /\ x.checkin_date = d}}

EpochMinutes_Floor(secs) == {secs \div 60}

\* EXTRACT(EPOCH FROM interval) / 60 assigned to an INTEGER column: the
\* quotient is rounded to the nearest integer.  An exact half is rounded
\* away from zero when the quotient is numeric and to the even neighbour
\* when it is double precision; which one depends on the server version.
EpochMinutes(secs) ==
    LET q == secs \div 60
        rem == secs % 60
    IN  IF rem < 30 THEN {q}
        ELSE IF rem > 30 THEN {q + 1}
        ELSE {IF secs > 0 THEN q + 1 ELSE q, IF q % 2 = 0 THEN q ELSE q + 1}

CheckoutRow_KeepsOnBreak(c, p_new_status, clk, mins) ==
    [c EXCEPT !.checkout_time = clk[2],
              !.status = p_new_status,
              !.total_daily_minutes = mins,
              !.updated_at = clk]

\* the row written by the UPDATE of the checkout branch
CheckoutRow(c, p_new_status, clk, mins) ==
    [c EXCEPT !.checkout_time = clk[2],
              !.status = p_new_status,
              !.on_break = FALSE,
              !.total_daily_minutes = mins,
              !.updated_at = clk]

StatusRow_WritesCheckout(c, p_new_status, clk) ==
    [c EXCEPT !.status = p_new_status,
              !.on_break = (p_new_status = "break"),
              !.checkout_time = clk[2],
              !.updated_at = clk]

StatusRow_KeepsOnBreak(c, p_new_status, clk) ==
    [c EXCEPT !.status = p_new_status,
              !.updated_at = clk]

StatusRow_StaysOnBreak(c, p_new_status, clk) ==
    [c EXCEPT !.status = IF c.on_break THEN c.status ELSE p_new_status,
              !.on_break = c.on_break \/ (p_new_status = "break"),
              !.updated_at = clk]

\* the row written by the UPDATE of the other branch
StatusRow(c, p_new_status, clk) ==
    [c EXCEPT !.status = p_new_status,
              !.on_break = (p_new_status = "break"),
              !.updated_at = clk]

update_checkin_status_Upsert(rows, p_checkin_id, p_new_status, clk) ==
    LET hit  == {c \in rows : c.id = p_checkin_id}
        rest == rows \ hit
    IN  IF hit = {}
        THEN {rows \cup {[NewRow(p_checkin_id, 1, clk[1], clk[2])
                             EXCEPT !.status = p_new_status]}}
        ELSE LET c == CHOOSE x \in hit : TRUE
             IN  IF p_new_status = "checkout"
                 THEN {rest \cup {Generated(CheckoutRow(c, p_new_status, clk, m))} :
                          m \in EpochMinutes(clk[2] - c.checkin_time)}
                 ELSE {rest \cup {Generated(StatusRow(c, p_new_status, clk))}}

\* update_checkin_status(p_checkin_id, p_new_status): the tables the call
\* can leave behind (one per rounding of total_daily_minutes)
update_checkin_status(rows, p_checkin_id, p_new_status, clk) ==
    LET hit  == {c \in rows : c.id = p_checkin_id}
        rest == rows \ hit
    IN  IF hit = {} THEN {rows}
        ELSE LET c == CHOOSE x \in hit : TRUE
             IN  IF p_new_status = "checkout"
                 THEN {rest \cup {Generated(CheckoutRow(c, p_new_status, clk, m))} :
                          m \in EpochMinutes(clk[2] - c.checkin_time)}
                 ELSE {rest \cup {Generated(StatusRow(c, p_new_status, clk))}}

\* the UPDATE raises when a row it writes breaks the status CHECK
UpdateRaises(rows, p_checkin_id, p_new_status) ==
    /\ \E c \in rows : c.id = p_checkin_id
    /\ ~StatusCheck(p_new_status)

ValidType_AnyString(type) == type # ""

\* ['break', 'checkin', 'checkout'].includes(type)
ValidType(type) == type \in {"break", "checkin", "checkout"}

\* the message chosen by the switch over type
StatusMessage(type) ==
    CASE type = "break"    -> "Break started"
      [] type = "checkin"  -> "Back to work"
      [] type = "checkout" -> "Checked out successfully"
      [] OTHER             -> ""

\* the response is sent and the handler's locals are gone
Finish(r, rs) ==
    /\ pc' = [pc EXCEPT ![r] = "done"]
    /\ req' = [req EXCEPT ![r] = NoReq]
    /\ resp' = [resp EXCEPT ![r] = rs]

\* a request (to either route) that the middleware answers itself: the
\* route handler never runs
AuthReject(r, tok) ==
    /\ pc[r] \in {"idle", "done"}
    /\ LET a == authenticateToken(tok)
       IN  /\ ~a.ok
           /\ Finish(r, a.resp)
    /\ UNCHANGED <<checkins, nextId, now, fmt, hrVars>>

\* --------------------------------------------- POST /employee-checkins
\* request arrival: middleware, then the handler up to its first await
\* (userId = req.user.id, today = the clock's date, SELECT issued)
PostCheckinRequest(r, tok) ==
    /\ pc[r] \in {"idle", "done"}
    /\ LET rq == [NoReq EXCEPT !.route = "POST /employee-checkins", !.token = tok]
           a  == authenticateToken(tok)
       IN  /\ a.ok
           /\ pc' = [pc EXCEPT ![r] = "post_select"]
           /\ req' = [req EXCEPT ![r] = [rq EXCEPT !.user = a.user,
                                                   !.today = now[1]]]
           /\ resp' = [resp EXCEPT ![r] = NoResp]
    /\ UNCHANGED <<checkins, nextId, now, fmt, hrVars>>

\* the duplicate check: the SELECT runs and the handler looks at its rows
PostSelect(r) ==
    /\ pc[r] = "post_select"
    /\ IF ExistingCheckin(checkins, req[r].user, req[r].today) # {}
       THEN Finish(r, Response(400, "You have already checked in today"))
       ELSE /\ pc' = [pc EXCEPT ![r] = "post_create"]
            /\ UNCHANGED <<req, resp>>
    /\ UNCHANGED <<checkins, nextId, now, fmt, hrVars>>

\* SELECT * FROM create_checkin($1): the INSERT with the store's date and
\* time; a unique violation raises, and the handler's catch answers 500.
\* The sequence value is consumed either way.
PostCreate(r) ==
    /\ pc[r] = "post_create"
    /\ nextId <= MaxId
    /\ nextId' = nextId + 1
    /\ IF UniqueViolation(checkins, req[r].user, now[1])
       THEN /\ checkins' = checkins
            /\ Finish(r, Response(500, "Internal server error"))
       ELSE /\ checkins' = checkins \cup
                             {NewRow(nextId, req[r].user, now[1], now[2])}
            /\ pc' = [pc EXCEPT ![r] = "post_respond"]
            /\ req' = [req EXCEPT ![r].checkinId = nextId]
            /\ UNCHANGED resp
    /\ UNCHANGED <<now, fmt, hrVars>>

\* res.status(201): the body carries the handler's today and the handler's
\* time of day at the moment of the response
PostRespond(r) ==
    /\ pc[r] = "post_respond"
    /\ Finish(r,
              [status |-> 201, message |-> "Check-in successful",
               body |-> [NoBody EXCEPT !.id = req[r].checkinId,
                                       !.checkin_date = req[r].today,
                                       !.checkin_time = now[2]]])
    /\ UNCHANGED <<checkins, nextId, now, fmt, hrVars>>

\* ------------------------------------------ PUT /employee-checkins/:id
\* request arrival: middleware, then the type check, then the store call
\* is issued
PutCheckinRequest(r, tok, id, type) ==
    /\ pc[r] \in {"idle", "done"}
    /\ LET rq == [NoReq EXCEPT !.route = "PUT /employee-checkins/:id",
                               !.token = tok, !.id = id, !.type = type]
           a  == authenticateToken(tok)
       IN  /\ a.ok
           /\ IF ~ValidType(type)
              THEN Finish(r, Response(400, "Invalid status type"))
              ELSE /\ pc' = [pc EXCEPT ![r] = "put_update"]
                   /\ req' = [req EXCEPT ![r] = [rq EXCEPT !.user = a.user]]
                   /\ resp' = [resp EXCEPT ![r] = NoResp]
    /\ UNCHANGED <<checkins, nextId, now, fmt, hrVars>>

\* SELECT update_checkin_status($1, $2), then res.json({ message }); an
\* error raised by the store is answered 500 by the handler's catch
PutUpdate(r) ==
    /\ pc[r] = "put_update"
    /\ IF UpdateRaises(checkins, req[r].id, req[r].type)
       THEN /\ checkins' = checkins
            /\ Finish(r, Response(500, "Internal server error"))
       ELSE /\ checkins' \in update_checkin_status(checkins, req[r].id,
                                                   req[r].type, now)
            /\ Finish(r, Response(200, StatusMessage(req[r].type)))
    /\ UNCHANGED <<nextId, now, fmt, hrVars>>

\* ------------------------------------------------- store calls that fail
Aborted_KeepsWrite(rows, written) == written

\* a store call that raises runs as one statement of its own: what it wrote
\* is rolled back and the table is as it was (the error comes from the
\* server, or the call never reached it; a connection lost after the server
\* has committed is not considered)
Aborted(rows, written) == rows

\* the users query of the middleware raises (store unreachable): the catch
\* around jwt.verify and the query answers 403
AuthStoreFails(r, tok) ==
    /\ pc[r] \in {"idle", "done"}
    /\ tok.kind = "valid"
    /\ Finish(r, Response(403, "Invalid token"))
    /\ UNCHANGED <<checkins, nextId, now, fmt, hrVars>>

\* the duplicate check's SELECT raises: the handler's catch answers 500
PostSelectFails(r) ==
    /\ pc[r] = "post_select"
    /\ Finish(r, Response(500, "Internal server error"))
    /\ UNCHANGED <<checkins, nextId, now, fmt, hrVars>>

\* create_checkin raises after its INSERT (connection lost, timeout): the
\* sequence value is spent, the row is not kept
PostCreateFails(r) ==
    /\ pc[r] = "post_create"
    /\ nextId <= MaxId
    /\ nextId' = nextId + 1
    /\ checkins' = Aborted(checkins,
                           checkins \cup {NewRow(nextId, req[r].user, now[1], now[2])})
    /\ Finish(r, Response(500, "Internal server error"))
    /\ UNCHANGED <<now, fmt, hrVars>>

\* update_checkin_status raises after its UPDATE
PutUpdateFails(r) ==
    /\ pc[r] = "put_update"
    /\ \E written \in update_checkin_status(checkins, req[r].id, req[r].type, now) :
          checkins' = Aborted(checkins, written)
    /\ Finish(r, Response(500, "Internal server error"))
    /\ UNCHANGED <<nextId, now, fmt, hrVars>>

\* ------------------------------------------------------- history reads
\* the sequences that hold each row of rows once, in an order in which no
\* row comes before one that the relation before puts first (ORDER BY;
\* rows that tie come in any order)
Ordered(rows, before) ==
    {sq \in [1..Cardinality(rows) -> rows] :
        /\ \A i, j \in 1..Cardinality(rows) : i # j => sq[i] # sq[j]
        /\ \A i, j \in 1..Cardinality(rows) : i < j => <<sq[j], sq[i]>> \notin before}

\* LIMIT lim OFFSET off
LimitOffset(sq, lim, off) ==
    SubSeq(sq, off + 1, IF off + lim < Len(sq) THEN off + lim ELSE Len(sq))

\* the store raises on a negative LIMIT or OFFSET
LimitRaises(lim, off) == lim < 0 \/ off < 0

\* the columns GET /get-employee-checkin selects
MineColumns(c) ==
    [checkin_date |-> c.checkin_date, checkin_time |-> c.checkin_time,
     checkout_time |-> c.checkout_time,
     total_working_hours |-> c.total_working_hours,
     total_break_hours |-> c.total_break_hours,
     total_daily_hours |-> c.total_daily_hours, status |-> c.status]

\* the columns GET /employee-checkins selects (u.name is the user itself)
ListColumns(c) ==
    [id |-> c.id, user_id |-> c.user_id, employee |-> c.user_id,
     checkin_date |-> c.checkin_date, checkin_time |-> c.checkin_time,
     checkout_time |-> c.checkout_time, status |-> c.status,
     on_break |-> c.on_break,
     total_working_hours |-> c.total_working_hours,
     total_break_hours |-> c.total_break_hours,
     total_daily_hours |-> c.total_daily_hours, created_at |-> c.created_at]

\* ORDER BY checkin_date DESC
DateDesc(rows) ==
    {<<a, b>> \in rows \X rows : a.checkin_date > b.checkin_date}

\* ORDER BY checkin_date DESC, checkin_time DESC
DateTimeDesc(rows) ==
    {<<a, b>> \in rows \X rows :
        \/ a.checkin_date > b.checkin_date
        \/ a.checkin_date = b.checkin_date /\ a.checkin_time > b.checkin_time}

ListWhere_IgnoresUser(rows, userId) == rows

\* WHERE 1=1 [AND ec.user_id = $1]
ListWhere(rows, userId) ==
    IF userId = NULL THEN rows ELSE {c \in rows : c.user_id = userId}

\* parseInt(param) || dflt
ParamOr(param, dflt) == IF param = NULL \/ param = 0 THEN dflt ELSE param

\* Math.ceil(total / perPage)
Ceil(total, perPage) == -((-total) \div perPage)

\* GET /get-employee-checkin: request arrival up to the SELECT
GetMineRequest(r, tok) ==
    /\ pc[r] \in {"idle", "done"}
    /\ LET rq == [NoReq EXCEPT !.route = "GET /get-employee-checkin", !.token = tok]
           a  == authenticateToken(tok)
       IN  /\ a.ok
           /\ pc' = [pc EXCEPT ![r] = "mine_select"]
           /\ req' = [req EXCEPT ![r] = [rq EXCEPT !.user = a.user]]
           /\ resp' = [resp EXCEPT ![r] = NoResp]
    /\ UNCHANGED <<checkins, nextId, now, fmt, hrVars>>

\* the SELECT ... WHERE user_id = $1 ORDER BY checkin_date DESC LIMIT 30
\* and the answer
GetMineSelect(r) ==
    /\ pc[r] = "mine_select"
    /\ \E sq \in Ordered({c \in checkins : c.user_id = req[r].user},
                          DateDesc(checkins)) :
          Finish(r, [status |-> 200, message |-> "",
                     body |-> [NoBody EXCEPT !.data =
                        [i \in 1..Len(LimitOffset(sq, 30, 0)) |->
                            MineColumns(LimitOffset(sq, 30, 0)[i])]]])
    /\ UNCHANGED <<checkins, nextId, now, fmt, hrVars>>

\* GET /employee-checkins: request arrival up to the count query (the
\* validators of page, per_page and user_id are declared but their result
\* is never looked at)
GetListRequest(r, tok, page, per_page, user_id) ==
    /\ pc[r] \in {"idle", "done"}
    /\ LET rq == [NoReq EXCEPT !.route = "GET /employee-checkins", !.token = tok]
           a  == authenticateToken(tok)
       IN  /\ a.ok
           /\ pc' = [pc EXCEPT ![r] = "list_count"]
           /\ req' = [req EXCEPT ![r] =
                         [rq EXCEPT !.user = a.user,
                                    !.page = ParamOr(page, 1),
                                    !.perPage = ParamOr(per_page, 10),
                                    !.userId = user_id]]
           /\ resp' = [resp EXCEPT ![r] = NoResp]
    /\ UNCHANGED <<checkins, nextId, now, fmt, hrVars>>

\* SELECT COUNT(*) ... and the data query issued
GetListCount(r) ==
    /\ pc[r] = "list_count"
    /\ pc' = [pc EXCEPT ![r] = "list_data"]
    /\ req' = [req EXCEPT ![r].total =
                  Cardinality(ListWhere(checkins, req[r].userId))]
    /\ UNCHANGED <<checkins, nextId, now, resp, fmt, hrVars>>

\* the data query (JOIN users, ORDER BY checkin_date DESC, checkin_time
\* DESC, LIMIT perPage OFFSET (page - 1) * perPage) and the answer; an
\* error raised by the store is answered 500 by the handler's catch
GetListData(r) ==
    /\ pc[r] = "list_data"
    /\ LET offset == (req[r].page - 1) * req[r].perPage
           joined == {c \in ListWhere(checkins, req[r].userId) :
                         c.user_id \in StoredUsers}
       IN  IF LimitRaises(req[r].perPage, offset)
           THEN Finish(r, Response(500, "Internal server error"))
           ELSE \E sq \in Ordered(joined, DateTimeDesc(checkins)) :
                   Finish(r, [status |-> 200, message |-> "",
                       body |-> [NoBody EXCEPT
                          !.data = [i \in 1..Len(LimitOffset(sq, req[r].perPage, offset)) |->
                                      ListColumns(LimitOffset(sq, req[r].perPage, offset)[i])],
                          !.meta = [current_page |-> req[r].page,
                                    per_page |-> req[r].perPage,
                                    total |-> req[r].total,
                                    last_page |-> Ceil(req[r].total, req[r].perPage)]]])
    /\ UNCHANGED <<checkins, nextId, now, fmt, hrVars>>

\* ------------------------------------------------- routes/documents.js
\* the names multer can give an uploaded file
Files == 1..MaxFile

\* what the routes of this section leave alone
notDocs == <<checkins, nextId, now, fmt, users, usersSeq, list, db, run>>

\* pool.execute hands its text and values to pool.query of pg.  Every
\* statement of documents.js is written with ? placeholders, which the
\* PostgreSQL server turns down as a syntax error: the call raises and the
\* statement has no effect
ExecuteRaises == TRUE

\* DELETE FROM employee_feedbacks WHERE id = ? AND requested_by = ?: the
\* rows that are left
DeleteFeedbackRows(rows, id, userId) ==
    {f \in rows : ~(f.id = id /\ f.requested_by = userId)}

Unlink_Keeps(files, file) == files

\* fs.unlinkSync(path)
Unlink(files, file) == files \ {file}

\* DELETE /employee-feedbacks/:id: middleware, then the handler up to its
\* await
DeleteFeedbackRequest(r, tok, id) ==
    /\ pc[r] \in {"idle", "done"}
    /\ LET rq == [NoReq EXCEPT !.route = "DELETE /employee-feedbacks/:id",
                               !.token = tok, !.id = id]
           a  == authenticateToken(tok)
       IN  /\ a.ok
           /\ pc' = [pc EXCEPT ![r] = "feedback_delete"]
           /\ req' = [req EXCEPT ![r] = [rq EXCEPT !.user = a.user]]
           /\ resp' = [resp EXCEPT ![r] = NoResp]
    /\ UNCHANGED <<employee_feedbacks, employee_documents, uploads, notDocs>>

\* the DELETE statement: the catch answers 500 when it raises; otherwise
\* 404 when no row was affected and 200 when one was
DeleteFeedback(r) ==
    /\ pc[r] = "feedback_delete"
    /\ IF ExecuteRaises
       THEN /\ employee_feedbacks' = employee_feedbacks
            /\ Finish(r, Response(500, "Internal server error"))
       ELSE LET kept == DeleteFeedbackRows(employee_feedbacks, req[r].id,
                                           req[r].user)
            IN  /\ employee_feedbacks' = kept
                /\ IF kept = employee_feedbacks
                   THEN Finish(r, Response(404, "Feedback not found or not authorized"))
                   ELSE Finish(r, Response(200, "Feedback deleted successfully"))
    /\ UNCHANGED <<employee_documents, uploads, notDocs>>

\* POST /employee-docs: middleware, multer stores the file under a new name,
\* then the handler up to its await: a request that fails validation has
\* its file removed and is answered 400, one without a file is answered 400
UploadDocRequest(r, tok, file, valid) ==
    /\ pc[r] \in {"idle", "done"}
    /\ file \notin uploads
    /\ LET rq == [NoReq EXCEPT !.route = "POST /employee-docs",
                               !.token = tok, !.file = file]
           a  == authenticateToken(tok)
           stored == IF file = NULL THEN uploads ELSE uploads \cup {file}
       IN  /\ a.ok
           /\ IF ~valid
              THEN /\ uploads' = IF file = NULL THEN stored
                                 ELSE Unlink(stored, file)
                   /\ Finish(r, Response(400, "Validation failed"))
              ELSE IF file = NULL
              THEN /\ uploads' = stored
                   /\ Finish(r, Response(400, "File is required"))
              ELSE /\ uploads' = stored
                   /\ pc' = [pc EXCEPT ![r] = "doc_insert"]
                   /\ req' = [req EXCEPT ![r] = [rq EXCEPT !.user = a.user]]
                   /\ resp' = [resp EXCEPT ![r] = NoResp]
    /\ UNCHANGED <<employee_feedbacks, employee_documents, notDocs>>

\* the INSERT raises: the catch removes the uploaded file and answers 500
UploadDocInsert(r) ==
    /\ pc[r] = "doc_insert"
    /\ ExecuteRaises
    /\ uploads' = Unlink(uploads, req[r].file)
    /\ Finish(r, Response(500, "Internal server error"))
    /\ UNCHANGED <<employee_feedbacks, employee_documents, notDocs>>

\* POST /employee-docs/:id: middleware, multer stores the file if one is
\* sent, then the handler up to its first await
UpdateDocRequest(r, tok, id, file) ==
    /\ pc[r] \in {"idle", "done"}
    /\ file \notin uploads
    /\ LET rq == [NoReq EXCEPT !.route = "POST /employee-docs/:id",
                               !.token = tok, !.id = id, !.file = file]
           a  == authenticateToken(tok)
       IN  /\ a.ok
           /\ uploads' = IF file = NULL THEN uploads ELSE uploads \cup {file}
           /\ pc' = [pc EXCEPT ![r] = "doc_current"]
           /\ req' = [req EXCEPT ![r] = [rq EXCEPT !.user = a.user]]
           /\ resp' = [resp EXCEPT ![r] = NoResp]
    /\ UNCHANGED <<employee_feedbacks, employee_documents, notDocs>>

\* the SELECT of the current file_path raises: the catch removes the new
\* file, if one was sent, and answers 500
UpdateDocCurrent(r) ==
    /\ pc[r] = "doc_current"
    /\ ExecuteRaises
    /\ uploads' = IF req[r].file = NULL THEN uploads
                  ELSE Unlink(uploads, req[r].file)
    /\ Finish(r, Response(500, "Internal server error"))
    /\ UNCHANGED <<employee_feedbacks, employee_documents, notDocs>>

\* DELETE /employee-docs/:id: middleware, then the handler up to its first
\* await
DeleteDocRequest(r, tok, id) ==
    /\ pc[r] \in {"idle", "done"}
    /\ LET rq == [NoReq EXCEPT !.route = "DELETE /employee-docs/:id",
                               !.token = tok, !.id = id]
           a  == authenticateToken(tok)
       IN  /\ a.ok
           /\ pc' = [pc EXCEPT ![r] = "doc_path"]
           /\ req' = [req EXCEPT ![r] = [rq EXCEPT !.user = a.user]]
           /\ resp' = [resp EXCEPT ![r] = NoResp]
    /\ UNCHANGED <<employee_feedbacks, employee_documents, uploads, notDocs>>

\* the SELECT of the file_path raises: the catch answers 500
DeleteDocPath(r) ==
    /\ pc[r] = "doc_path"
    /\ ExecuteRaises
    /\ Finish(r, Response(500, "Internal server error"))
    /\ UNCHANGED <<employee_feedbacks, employee_documents, uploads, notDocs>>

\* ------------------------------------------------- routes/employees.js
\* addresses a create request may carry: those of the stored users and new
\* ones
Emails == 1..MaxEmail

\* what POST /employees leaves alone
notUsers == <<checkins, nextId, now, fmt, employee_feedbacks,
              employee_documents, uploads, list, db, run>>

\* String.prototype.padStart(len, fill)
RECURSIVE padStart(_, _, _)
padStart(s, len, fill) ==
    IF Len(s) >= len THEN s ELSE padStart(<<fill>> \o s, len, fill)

\* parseInt of a text of digits
RECURSIVE parseInt(_)
parseInt(s) ==
    IF s = <<>> THEN 0
    ELSE 10 * parseInt(SubSeq(s, 1, Len(s) - 1))
            + (CHOOSE d \in 0..9 : DigitChar(d) = s[Len(s)])

\* SELECT employee_id FROM users ORDER BY id DESC LIMIT 1
lastEmployee(rows) == {u \in rows : \A v \in rows : v.id <= u.id}

\* 1, or the number in the last employee's employee_id plus one
nextNumber(rows) ==
    IF lastEmployee(rows) = {} THEN 1
    ELSE LET last == CHOOSE u \in lastEmployee(rows) : TRUE
         IN  parseInt(SubSeq(last.employee_id, 4, Len(last.employee_id))) + 1

\* `EMP${nextNumber.toString().padStart(3, '0')}`
employeeId(n) == <<"E", "M", "P">> \o padStart(NatText(n), 3, "0")

\* employee_id UNIQUE, email UNIQUE
UsersUniqueViolation(rows, empId, email) ==
    \E u \in rows : u.employee_id = empId \/ u.email = email

\* POST /employees: middleware, validation, then the handler up to its first
\* await
CreateEmployeeRequest(r, tok, email, valid) ==
    /\ pc[r] \in {"idle", "done"}
    /\ LET rq == [NoReq EXCEPT !.route = "POST /employees",
                               !.token = tok, !.email = email]
           a  == authenticateToken(tok)
       IN  /\ a.ok
           /\ IF ~valid
              THEN Finish(r, Response(400, "Validation failed"))
              ELSE /\ pc' = [pc EXCEPT ![r] = "employee_last"]
                   /\ req' = [req EXCEPT ![r] = [rq EXCEPT !.user = a.user]]
                   /\ resp' = [resp EXCEPT ![r] = NoResp]
    /\ UNCHANGED <<users, usersSeq, notUsers>>

\* the last employee is read and the new employee_id is made from it; the
\* handler then waits for the password hash and issues the INSERT
CreateEmployeeLast(r) ==
    /\ pc[r] = "employee_last"
    /\ pc' = [pc EXCEPT ![r] = "employee_insert"]
    /\ req' = [req EXCEPT
                  ![r].employeeId = employeeId(nextNumber(users))]
    /\ UNCHANGED <<resp, users, usersSeq, notUsers>>

\* the INSERT: a unique violation (code 23505, on either column) is answered
\* 400 'Email already exists'; the id sequence moves on either way
CreateEmployeeInsert(r) ==
    /\ pc[r] = "employee_insert"
    /\ usersSeq <= MaxUser
    /\ usersSeq' = usersSeq + 1
    /\ IF UsersUniqueViolation(users, req[r].employeeId, req[r].email)
       THEN /\ users' = users
            /\ Finish(r, Response(400, "Email already exists"))
       ELSE /\ users' = users \cup {[id |-> usersSeq,
                                     employee_id |-> req[r].employeeId,
                                     email |-> req[r].email]}
            /\ Finish(r, [status |-> 201,
                          message |-> "Employee created successfully",
                          body |-> [NoBody EXCEPT !.id = usersSeq]])
    /\ UNCHANGED notUsers

\* GET /employees taken alone: page, perPage and the count of matching users
\* that pass the validators, then the two queries and the meta block
InitList ==
    /\ checkins = {}
    /\ nextId = 1
    /\ now = <<1, 32400>>
    /\ pc = [r \in Reqs |-> "idle"]
    /\ req = [r \in Reqs |-> NoReq]
    /\ resp = [r \in Reqs |-> NoResp]
    /\ fmt = NoFmt
    /\ employee_feedbacks = {}
    /\ employee_documents = {}
    /\ uploads = {}
    /\ users = StoredUserRows
    /\ usersSeq = 4
    /\ list \in {[NoList EXCEPT !.page = p, !.perPage = pp, !.total = t] :
                    p \in 1..MaxPage, pp \in 1..MaxPerPage, t \in 0..MaxTotal}
    /\ db = Migrated
    /\ run = [p \in Runs |-> "exited"]

\* Math.min(a, b)
Min(a, b) == IF a < b THEN a ELSE b

\* the handler: offset, the rows LIMIT perPage OFFSET offset returns out of
\* total matching ones, and meta
GetEmployees ==
    /\ list.rows = NULL
    /\ LET page    == ParamOr(list.page, 1)
           perPage == ParamOr(list.perPage, 10)
           offset  == (page - 1) * perPage
           total   == list.total
       IN  list' = [list EXCEPT
                      !.rows = Len(LimitOffset([i \in 1..total |-> i],
                                               perPage, offset)),
                      !.last_page = Ceil(total, perPage),
                      !.from = offset + 1,
                      !.to = Min(offset + perPage, total)]
    /\ UNCHANGED <<checkins, nextId, now, pc, req, resp, fmt,
                   employee_feedbacks, employee_documents, uploads, users,
                   usersSeq, db, run>>

\* ------------------------------------------------- migrations/migrate.js
\* what a migration run leaves alone
notDb == <<checkins, nextId, now, pc, req, resp, fmt, employee_feedbacks,
           employee_documents, uploads, list>>

\* a database nothing was created in, and no run under way
InitMig ==
    /\ checkins = {}
    /\ nextId = 1
    /\ now = <<1, 32400>>
    /\ pc = [r \in Reqs |-> "idle"]
    /\ req = [r \in Reqs |-> NoReq]
    /\ resp = [r \in Reqs |-> NoResp]
    /\ fmt = NoFmt
    /\ employee_feedbacks = {}
    /\ employee_documents = {}
    /\ uploads = {}
    /\ users = {}
    /\ usersSeq = 1
    /\ list = NoList
    /\ db = {}
    /\ run = [p \in Runs |-> "exited"]

\* the statement a run issues after the one named what
After(what) ==
    LET i == CHOOSE j \in 1..Len(Created) : Created[j] = what
    IN  Created[i + 1]

\* runMigrations is called: the client is taken from the pool
runMigrations(p) ==
    /\ run[p] = "exited"
    /\ run' = [run EXCEPT ![p] = "migrations"]
    /\ UNCHANGED <<db, users, usersSeq, notDb>>

\* CREATE TABLE IF NOT EXISTS migrations
CreateMigrationsTable(p) ==
    /\ run[p] = "migrations"
    /\ db' = db \cup {"migrations"}
    /\ run' = [run EXCEPT ![p] = "migrationCheck"]
    /\ UNCHANGED <<users, usersSeq, notDb>>

\* SELECT * FROM migrations WHERE name = 'initial_schema': a run that finds
\* the marker returns
migrationCheck(p) ==
    /\ run[p] = "migrationCheck"
    /\ run' = [run EXCEPT ![p] = IF "initial_schema" \in db THEN "exited"
                                 ELSE "schema"]
    /\ UNCHANGED <<db, users, usersSeq, notDb>>

\* createSchema: one query of plain CREATE TABLE, CREATE INDEX and CREATE
\* TRIGGER statements, run as one transaction; it raises when the tables
\* exist, and the run ends
createSchema(p) ==
    /\ run[p] = "schema"
    /\ IF "schema" \in db
       THEN /\ db' = db
            /\ run' = [run EXCEPT ![p] = "exited"]
       ELSE /\ db' = db \cup {"schema"}
            /\ run' = [run EXCEPT ![p] = After("schema")]
    /\ UNCHANGED <<users, usersSeq, notDb>>

\* the admin user of the sample data
AdminRow(id) ==
    [id |-> id, employee_id |-> <<"E", "M", "P", "0", "0", "1">>, email |-> 1]

\* insertSampleData: three INSERT ... ON CONFLICT DO NOTHING queries, the
\* last of which stores the admin user unless the email is taken
insertSampleData(p) ==
    /\ run[p] \in {"departments", "teams", "admin"}
    /\ db' = db \cup {run[p]}
    /\ run' = [run EXCEPT ![p] = After(run[p])]
    /\ IF run[p] = "admin"
       THEN /\ usersSeq' = usersSeq + 1
            /\ users' = IF \E u \in users : u.email = 1 THEN users
                        ELSE users \cup {AdminRow(usersSeq)}
       ELSE UNCHANGED <<users, usersSeq>>
    /\ UNCHANGED notDb

\* createViewsAndFunctions: four CREATE OR REPLACE queries
createViewsAndFunctions(p) ==
    /\ run[p] \in {"employee_overview", "time_tracking_summary",
                    "create_checkin", "update_checkin_status"}
    /\ db' = db \cup {run[p]}
    /\ run' = [run EXCEPT ![p] = After(run[p])]
    /\ UNCHANGED <<users, usersSeq, notDb>>

\* INSERT INTO migrations (name) VALUES ('initial_schema'): name is UNIQUE,
\* the run ends either way
MarkCompleted(p) ==
    /\ run[p] = "initial_schema"
    /\ db' = db \cup {"initial_schema"}
    /\ run' = [run EXCEPT ![p] = "exited"]
    /\ UNCHANGED <<users, usersSeq, notDb>>

\* a query of the run raises (connection lost, statement timeout) or the
\* process is stopped: the error is thrown on and nothing is undone
MigrationFails(p) ==
    /\ run[p] # "exited"
    /\ run' = [run EXCEPT ![p] = "exited"]
    /\ UNCHANGED <<db, users, usersSeq, notDb>>

\* ------------------------------------------------------ specifications
\* Spec: overlapping requests of one employee (and of callers the
\* middleware turns away), the clock moving by whole days
OneEmployee == TokensOf({1, 3, 4})

\* Slot 1 carries any request. Slot 2 carries the racing check-in only: a
\* status change reads and writes the store in one step and a rejection
\* touches nothing, so a second one in flight adds no interleaving
Next ==
    \/ Tick(Dates, StartOfDay)
    \/ \E tok \in OneEmployee : AuthReject(1, tok)
    \/ \E r \in Reqs, tok \in OneEmployee : PostCheckinRequest(r, tok)
    \/ \E r \in Reqs : PostSelect(r)
    \/ \E r \in Reqs : PostCreate(r)
    \/ \E r \in Reqs : PostRespond(r)
    \/ \E tok \in OneEmployee, id \in PathIds, type \in Types :
          PutCheckinRequest(1, tok, id, type)
    \/ PutUpdate(1)

Spec == Init /\ [][Next]_vars

\* SpecDay: one request at a time, the clock moving through the first day
NextDay ==
    \/ Tick(FirstDay, TimesOfDay)
    \/ \E tok \in OneEmployee : AuthReject(1, tok)
    \/ \E tok \in OneEmployee : PostCheckinRequest(1, tok)
    \/ PostSelect(1)
    \/ PostCreate(1)
    \/ PostRespond(1)
    \/ \E tok \in OneEmployee, id \in PathIds, type \in Types :
          PutCheckinRequest(1, tok, id, type)
    \/ PutUpdate(1)

SpecDay == Init /\ [][NextDay]_vars

\* SpecNight: one request at a time, the clock moving through the days
\* between the start and the end of work
NextNight ==
    \/ Tick(Dates, WorkHours)
    \/ \E tok \in OneEmployee : AuthReject(1, tok)
    \/ \E tok \in OneEmployee : PostCheckinRequest(1, tok)
    \/ PostSelect(1)
    \/ PostCreate(1)
    \/ PostRespond(1)
    \/ \E tok \in OneEmployee, id \in PathIds, type \in Types :
          PutCheckinRequest(1, tok, id, type)
    \/ PutUpdate(1)

SpecNight == Init /\ [][NextNight]_vars

\* SpecRead: one request at a time to any of the four attendance routes,
\* within the first day
NextRead ==
    \/ Tick(FirstDay, WorkHours)
    \/ \E tok \in OneEmployee : AuthReject(1, tok)
    \/ \E tok \in OneEmployee : PostCheckinRequest(1, tok)
    \/ PostSelect(1)
    \/ PostCreate(1)
    \/ PostRespond(1)
    \/ \E tok \in OneEmployee, id \in PathIds, type \in Types :
          PutCheckinRequest(1, tok, id, type)
    \/ PutUpdate(1)
    \/ \E tok \in OneEmployee : GetMineRequest(1, tok)
    \/ GetMineSelect(1)
    \/ \E tok \in OneEmployee, page \in PageParams, per_page \in PerPageParams,
          user_id \in UserIdParams :
          GetListRequest(1, tok, page, per_page, user_id)
    \/ GetListCount(1)
    \/ GetListData(1)

SpecRead == Init /\ [][NextRead]_vars

\* SpecFmt: the Time Formatter taken alone, applied to one minute count
InitFmt ==
    /\ checkins = {}
    /\ nextId = 1
    /\ now = <<1, 32400>>
    /\ pc = [r \in Reqs |-> "idle"]
    /\ req = [r \in Reqs |-> NoReq]
    /\ resp = [r \in Reqs |-> NoResp]
    /\ fmt \in {[m |-> m, text |-> <<>>] : m \in 0..(MaxMinutes - 1)}
    /\ HrInit

Format ==
    /\ fmt.text = <<>>
    /\ fmt' = [fmt EXCEPT !.text = HoursText(fmt.m)]
    /\ UNCHANGED <<checkins, nextId, now, pc, req, resp, hrVars>>

NextFmt == Format

SpecFmt == InitFmt /\ [][NextFmt]_vars

\* SpecFail: one request at a time, each store call either answers or
\* raises
NextFail ==
    \/ Tick(Dates, StartOfDay)
    \/ \E tok \in OneEmployee : AuthStoreFails(1, tok)
    \/ \E tok \in OneEmployee : AuthReject(1, tok)
    \/ \E tok \in OneEmployee : PostCheckinRequest(1, tok)
    \/ PostSelect(1)
    \/ PostSelectFails(1)
    \/ PostCreate(1)
    \/ PostCreateFails(1)
    \/ PostRespond(1)
    \/ \E tok \in OneEmployee, id \in PathIds, type \in Types :
          PutCheckinRequest(1, tok, id, type)
    \/ PutUpdate(1)
    \/ PutUpdateFails(1)

SpecFail == Init /\ [][NextFail]_vars

\* SpecTwo: one request at a time, made by either of two active employees
TwoEmployees == TokensOf({1, 2})

NextTwo ==
    \/ Tick(Dates, StartOfDay)
    \/ \E tok \in TwoEmployees : AuthReject(1, tok)
    \/ \E tok \in TwoEmployees : PostCheckinRequest(1, tok)
    \/ PostSelect(1)
    \/ PostCreate(1)
    \/ PostRespond(1)
    \/ \E tok \in TwoEmployees, id \in PathIds, type \in Types :
          PutCheckinRequest(1, tok, id, type)
    \/ PutUpdate(1)

SpecTwo == Init /\ [][NextTwo]_vars

\* SpecDocs: overlapping requests to the feedback and document routes
NextDocs ==
    \/ \E r \in Reqs, tok \in OneEmployee : AuthReject(r, tok)
    \/ \E r \in Reqs, tok \in OneEmployee, id \in PathIds :
          DeleteFeedbackRequest(r, tok, id)
    \/ \E r \in Reqs : DeleteFeedback(r)
    \/ \E r \in Reqs, tok \in OneEmployee, file \in Files \cup {NULL},
          valid \in BOOLEAN : UploadDocRequest(r, tok, file, valid)
    \/ \E r \in Reqs : UploadDocInsert(r)
    \/ \E r \in Reqs, tok \in OneEmployee, id \in PathIds,
          file \in Files \cup {NULL} : UpdateDocRequest(r, tok, id, file)
    \/ \E r \in Reqs : UpdateDocCurrent(r)
    \/ \E r \in Reqs, tok \in OneEmployee, id \in PathIds :
          DeleteDocRequest(r, tok, id)
    \/ \E r \in Reqs : DeleteDocPath(r)

SpecDocs == Init /\ [][NextDocs]_vars

\* SpecEmp: overlapping requests to POST /employees
NextEmp ==
    \/ \E r \in Reqs, tok \in OneEmployee : AuthReject(r, tok)
    \/ \E r \in Reqs, tok \in OneEmployee, email \in Emails, valid \in BOOLEAN :
          CreateEmployeeRequest(r, tok, email, valid)
    \/ \E r \in Reqs : CreateEmployeeLast(r)
    \/ \E r \in Reqs : CreateEmployeeInsert(r)

SpecEmp == Init /\ [][NextEmp]_vars

\* SpecList: the employee list for each page, page size and count
NextList == GetEmployees

SpecList == InitList /\ [][NextList]_vars

\* SpecMig: migration runs against a new database, each of which may fail
\* at any query
NextMig ==
    \/ \E p \in Runs : runMigrations(p)
    \/ \E p \in Runs : CreateMigrationsTable(p)
    \/ \E p \in Runs : migrationCheck(p)
    \/ \E p \in Runs : createSchema(p)
    \/ \E p \in Runs : insertSampleData(p)
    \/ \E p \in Runs : createViewsAndFunctions(p)
    \/ \E p \in Runs : MarkCompleted(p)
    \/ \E p \in Runs : MigrationFails(p)

SpecMig == InitMig /\ [][NextMig]_vars

\* ------------------------------------------------------------ properties
RowsOfDay(rows, u, d) == {c \in rows : c.user_id = u /\ c.checkin_date = d}
RowsOfId(rows, id) == {c \in rows : c.id = id}

\* the step in which the store call of request r's apply-transition runs
\* and the request is answered
TransitionStep(r) == pc[r] = "put_update" /\ pc'[r] = "done"

Rejected(r) == resp'[r].status >= 400

\* C1: no two check-in records have the same (employeeId, checkinDate),
\* whatever the order and overlap of the open-day requests
C1_DayUnique ==
    \A c1, c2 \in checkins :
        (c1.user_id = c2.user_id /\ c1.checkin_date = c2.checkin_date) => c1 = c2

\* two open-day requests overlapped: one was answered 201 and the other's
\* INSERT was turned down by the store
C1_Witness ==
    /\ checkins # {}
    /\ \E r1, r2 \in Reqs : resp[r1].status = 201 /\ resp[r2].status = 500

\* C2 (as claimed): once a record's status is checkout, every later
\* apply-transition on it is rejected with an error and leaves status,
\* onBreak, checkoutTime and dailyMinutes unchanged
C2_CheckoutTerminal ==
    [][\A r \in Reqs : TransitionStep(r) =>
          \A c \in RowsOfId(checkins, req[r].id) :
              c.status = "checkout" =>
                  /\ Rejected(r)
                  /\ \E d \in RowsOfId(checkins', c.id) :
                        /\ d.status = c.status
                        /\ d.on_break = c.on_break
                        /\ d.checkout_time = c.checkout_time
                        /\ d.total_daily_minutes = c.total_daily_minutes]_vars

\* C3: for every check-in record, onBreak is true exactly when
\* status = break
C3_OnBreakIffBreak ==
    \A c \in checkins : c.on_break = (c.status = "break")

\* some record is on break and another transition has left break again
C3_Witness ==
    /\ \E c \in checkins : c.status = "break" /\ c.on_break
    /\ \E c \in checkins : c.status = "checkout" /\ ~c.on_break

\* C4: an open-day call whose duplicate check runs while the employee has a
\* record for today is answered 'already checked in today', and the store
\* is unchanged with exactly one record for that (employee, day)
C4_SecondOpenDayConflict ==
    [][\A r \in Reqs :
          (/\ pc[r] = "post_select"
           /\ pc'[r] # "post_select"
           /\ RowsOfDay(checkins, req[r].user, req[r].today) # {})
          => /\ pc'[r] = "done"
             /\ resp'[r] = Response(400, "You have already checked in today")
             /\ checkins' = checkins
             /\ Cardinality(RowsOfDay(checkins', req[r].user, req[r].today)) = 1]_vars

\* a second open-day call has been answered with the conflict, also for a
\* day that was already finished
C4_Witness ==
    /\ \E r \in Reqs : /\ pc[r] = "done"
                       /\ resp[r].message = "You have already checked in today"
    /\ \E c \in checkins : c.status = "checkout" /\ c.checkin_date = now[1]

\* C5 (as claimed): an open-day request is answered either with the created
\* record or with the 'already checked in today' conflict, never with the
\* generic failure, also when two of them overlap
C5_OverlapGetsConflict ==
    [][\A r \in Reqs :
          (req[r].route = "POST /employee-checkins" /\ pc'[r] = "done")
          => \/ resp'[r].status = 201
             \/ resp'[r] = Response(400, "You have already checked in today")]_vars

\* C6: an apply-transition request whose type is not checkin, break or
\* checkout is answered 400 at once, with no store call and the store
\* unchanged
C6_InvalidTypeRejected ==
    [][\A r \in Reqs, type \in Types \ {"checkin", "break", "checkout"} :
          (\E tok \in OneEmployee, id \in PathIds :
               PutCheckinRequest(r, tok, id, type))
          => /\ pc'[r] = "done"
             /\ resp'[r] = Response(400, "Invalid status type")
             /\ checkins' = checkins]_vars

\* a request with an unknown type was turned down while a record existed
C6_Witness ==
    /\ checkins # {}
    /\ \E r \in Reqs : pc[r] = "done" /\ resp[r].message = "Invalid status type"

\* C7 (as claimed): an apply-transition with a valid type and an id that
\* matches no record is answered 404 and changes nothing
C7_UnknownIdNotFound ==
    [][\A r \in Reqs :
          (TransitionStep(r) /\ RowsOfId(checkins, req[r].id) = {})
          => resp'[r].status = 404 /\ checkins' = checkins]_vars

\* C8 (as claimed): a request with target break on a record whose status is
\* not checkin is rejected and leaves the record unchanged
C8_BreakOnlyFromCheckin ==
    [][\A r \in Reqs : (TransitionStep(r) /\ req[r].type = "break") =>
          \A c \in RowsOfId(checkins, req[r].id) :
              c.status # "checkin" => Rejected(r) /\ c \in checkins']_vars

\* C9 (as claimed): a request with target checkin on a record whose status
\* is not break is rejected and leaves the record unchanged
C9_ResumeOnlyFromBreak ==
    [][\A r \in Reqs : (TransitionStep(r) /\ req[r].type = "checkin") =>
          \A c \in RowsOfId(checkins, req[r].id) :
              c.status # "break" => Rejected(r) /\ c \in checkins']_vars

\* C10: a request with target checkout on a record in status checkin or
\* break leaves it with status = checkout, onBreak = false and
\* checkoutTime = the time of day at the store call
C10_FinishResult ==
    [][\A r \in Reqs : (TransitionStep(r) /\ req[r].type = "checkout") =>
          \A c \in RowsOfId(checkins, req[r].id) :
              c.status \in {"checkin", "break"} =>
                  \E d \in RowsOfId(checkins', c.id) :
                      /\ d.status = "checkout"
                      /\ d.on_break = FALSE
                      /\ d.checkout_time = now[2]]_vars

\* a record was finished later in the day than it was opened
C10_Witness ==
    \E c \in checkins : /\ c.status = "checkout"
                        /\ c.checkout_time > c.checkin_time
                        /\ c.updated_at[1] = c.checkin_date
\* the step in which request r's apply-transition with target checkout runs
FinishStep(r) == TransitionStep(r) /\ req[r].type = "checkout"

Abs(x) == IF x < 0 THEN -x ELSE x

\* C11 (as claimed): on finish, dailyMinutes is the whole-minute difference
\* between checkoutTime and checkinTime: the whole minutes that have passed
C11_WholeMinutes ==
    [][\A r \in Reqs : FinishStep(r) =>
          \A d \in RowsOfId(checkins', req[r].id) :
              d.total_daily_minutes = (d.checkout_time - d.checkin_time) \div 60]_vars

\* C11 (amended): on finish, dailyMinutes is the difference between
\* checkoutTime and checkinTime in minutes rounded to the nearest whole
\* minute; 09:00:00 to 17:30:00 gives 510 and dailyHours "08:30"
C11_RoundedMinutes ==
    [][\A r \in Reqs : FinishStep(r) =>
          \A d \in RowsOfId(checkins', req[r].id) :
              /\ Abs(60 * d.total_daily_minutes
                       - (d.checkout_time - d.checkin_time)) <= 30
              /\ (d.checkin_time = 32400 /\ d.checkout_time = 63000)
                    => /\ d.total_daily_minutes = 510
                       /\ d.total_daily_hours = <<"0", "8", ":", "3", "0">>]_vars

\* the day opened at 09:00:00 and finished at 17:30:00
C11_Witness ==
    \E c \in checkins : /\ c.status = "checkout"
                        /\ c.checkin_time = 32400
                        /\ c.checkout_time = 63000
                        /\ c.total_daily_minutes = 510

\* C12 (as claimed): workingMinutes, breakMinutes and dailyMinutes of every
\* record are non-negative
C12_MinutesNonNegative ==
    \A c \in checkins : /\ c.total_working_minutes >= 0
                        /\ c.total_break_minutes >= 0
                        /\ c.total_daily_minutes >= 0
\* reading a text back: the number a text of digits spells, and
\* hours * 60 + minutes of a text "H..H:M..M"
CharDigit(ch) == CHOOSE d \in 0..9 : DigitChar(d) = ch

RECURSIVE TextNat(_)
TextNat(s) ==
    IF s = <<>> THEN 0
    ELSE 10 * TextNat(SubSeq(s, 1, Len(s) - 1)) + CharDigit(s[Len(s)])

ColonAt(s) == CHOOSE i \in 1..Len(s) : s[i] = ":"

ParseHours(s) ==
    60 * TextNat(SubSeq(s, 1, ColonAt(s) - 1))
        + TextNat(SubSeq(s, ColonAt(s) + 1, Len(s)))

\* n zero-padded to 2 digits
Pad2(n) == IF n < 10 THEN <<"0">> \o NatText(n) ELSE NatText(n)

\* C13 (as claimed): for every minute count m in [0, 10000) the formatter's
\* output is floor(m/60) zero-padded to 2 digits, ':', m mod 60 zero-padded
\* to 2 digits, and parsing it back recovers m
C13_FormatRoundTrip ==
    fmt.text # <<>> =>
        /\ fmt.text = Pad2(fmt.m \div 60) \o <<":">> \o Pad2(fmt.m % 60)
        /\ ParseHours(fmt.text) = fmt.m
\* the display text the Time Formatter is specified to give for m >= 0
ClockText(m) == Pad2(m \div 60) \o <<":">> \o Pad2(m % 60)

C15_FreshRecord ==
    [][\A r \in Reqs : (pc[r] = "post_create" /\ pc'[r] = "post_respond") =>
          /\ Cardinality(checkins' \ checkins) = 1
          /\ \A c \in checkins' \ checkins :
                /\ c.status = "checkin"
                /\ c.on_break = FALSE
                /\ c.checkout_time = NULL
                /\ c.checkin_time = now[2]
                /\ c.checkin_date = now[1]
                /\ c.total_working_minutes = 0
                /\ c.total_break_minutes = 0
                /\ c.total_daily_minutes = 0]_vars

\* a record opened later than the start of the day, not yet touched
C15_Witness ==
    \E c \in checkins : /\ c.checkin_time > 32400
                        /\ c.updated_at = c.created_at
                        /\ c.status = "checkin"

Ids(rows) == {c.id : c \in rows}

\* C16: the set of check-in records changes only by a successful open day
\* adding exactly one record; no transition or history read creates one and
\* nothing deletes one
C16_OnlyOpenDayCreates ==
    [][/\ Ids(checkins) \subseteq Ids(checkins')
       /\ Ids(checkins') # Ids(checkins) =>
             /\ \E r \in Reqs : pc[r] = "post_create" /\ pc'[r] = "post_respond"
             /\ Cardinality(Ids(checkins') \ Ids(checkins)) = 1
             /\ Cardinality(checkins') = Cardinality(checkins) + 1]_vars

\* a record exists, it has been through a transition, and a history read
\* has returned it
C16_Witness ==
    /\ \E c \in checkins : c.updated_at # c.created_at
    /\ \E r \in Reqs : resp[r].status = 200 /\ resp[r].body.data # <<>>

\* C17: from a freshly opened record the requests break, checkin, checkout
\* are accepted one after the other: checkin -> break -> checkin ->
\* checkout, ending with onBreak = false
C17_BreakResumeFinish ==
    [][\A r \in Reqs : TransitionStep(r) =>
          \A c \in RowsOfId(checkins, req[r].id) :
              LET legal == \/ c.status = "checkin" /\ req[r].type = "break"
                           \/ c.status = "break" /\ req[r].type = "checkin"
                           \/ c.status = "checkin" /\ req[r].type = "checkout"
              IN  legal =>
                    /\ resp'[r].status = 200
                    /\ \E d \in RowsOfId(checkins', c.id) :
                          /\ d.status = req[r].type
                          /\ d.on_break = (req[r].type = "break")]_vars

\* a record opened at 09:00:00, changed at each later time of the day and
\* finished at 17:30:00, the finish just answered
C17_Witness ==
    /\ \E c \in checkins : /\ c.status = "checkout"
                           /\ c.on_break = FALSE
                           /\ c.checkin_time = 32400
                           /\ c.checkout_time = 63000
    /\ \E r \in Reqs : resp[r].message = "Checked out successfully"

\* C18 (as claimed): checkoutTime is non-null exactly when
\* status = checkout, and onBreak is false whenever status = checkout
C18_ConsistentCombination ==
    \A c \in checkins :
        /\ (c.checkout_time # NULL) = (c.status = "checkout")
        /\ c.status = "checkout" => c.on_break = FALSE

\* the step in which a history read's store call runs
ReadStep(r) ==
    /\ pc[r] \in {"mine_select", "list_count", "list_data"}
    /\ pc'[r] # pc[r]

ActiveToken(tok) ==
    /\ tok.kind = "valid"
    /\ tok.userId \in StoredUsers
    /\ employee_status(tok.userId) = "active"

\* C20: a handler runs, and attendance state changes, only for a request
\* whose token verified and names a stored user with employee_status
\* active; no token is answered 401, an invalid token 403, a user that is
\* absent or not active 401
C20_AccessGate ==
    [][\A r \in Reqs :
          /\ pc'[r] \notin {"idle", "done"} => ActiveToken(req'[r].token)
          /\ (checkins' # checkins \/ nextId' # nextId) =>
                \E q \in Reqs : pc[q] \notin {"idle", "done"}
                                   /\ ActiveToken(req[q].token)
          /\ \A tok \in OneEmployee :
                (~ActiveToken(tok) /\ pc[r] \in {"idle", "done"} /\ pc'[r] # "idle"
                    /\ AuthReject(r, tok))
                => resp'[r].status = CASE tok.kind = "none" -> 401
                                       [] tok.kind = "invalid" -> 403
                                       [] OTHER -> 401]_vars

\* a stored but inactive user has been turned away while a record exists
C20_Witness ==
    /\ checkins # {}
    /\ \E r \in Reqs : /\ pc[r] = "done"
                       /\ resp[r] = Response(401, "Invalid token or user deactivated")
\* the step in which request r is answered 500
Ends500(r) ==
    /\ pc[r] \notin {"idle", "done"}
    /\ pc'[r] = "done"
    /\ resp'[r].status = 500

StoreFailure(r) ==
    \/ \E tok \in OneEmployee : AuthStoreFails(r, tok)
    \/ PostSelectFails(r)
    \/ PostCreateFails(r)
    \/ PutUpdateFails(r)

\* C22 (as claimed): every store-level failure is answered 500 with the
\* generic message; 400 is answered only for an invalid type or a duplicate
\* day; 401 and 403 only when the credential fails; and an apply-transition
\* on a record that does not exist is answered 404
C22_ClassifiedByCause ==
    [][\A r \in Reqs :
          /\ StoreFailure(r) => resp'[r] = Response(500, "Internal server error")
          /\ (pc'[r] = "done" /\ resp'[r].status = 400)
                => \/ /\ pc[r] = "post_select"
                      /\ RowsOfDay(checkins, req[r].user, req[r].today) # {}
                   \/ /\ pc[r] \in {"idle", "done"}
                      /\ resp'[r].message = "Invalid status type"
                   \/ pc[r] = "done" /\ resp'[r] = resp[r]
          /\ (TransitionStep(r) /\ RowsOfId(checkins, req[r].id) = {})
                => resp'[r].status \in {404, 500}]_vars

\* C23: a transition to break or back to checkin changes only status,
\* on_break and updated_at of the addressed record and leaves every other
\* record as it was; checkout_time and total_daily_minutes of a record are
\* written only by a transition to checkout
C23_BreakResumeFrame ==
    [][\A r \in Reqs :
          /\ (TransitionStep(r) /\ req[r].type \in {"break", "checkin"}) =>
                /\ \A c \in checkins :
                      IF c.id = req[r].id
                      THEN [c EXCEPT !.status = req[r].type,
                                     !.on_break = (req[r].type = "break"),
                                     !.updated_at = now] \in checkins'
                      ELSE c \in checkins'
                /\ Cardinality(checkins') = Cardinality(checkins)
          /\ \A c \in checkins, d \in checkins' :
                (/\ d.id = c.id
                 /\ \/ d.checkout_time # c.checkout_time
                    \/ d.total_daily_minutes # c.total_daily_minutes)
                => \E q \in Reqs : FinishStep(q) /\ req[q].id = c.id]_vars

\* a record was put on break after it was opened, while another record
\* was stored
C23_Witness ==
    \E c, d \in checkins :
        /\ c.id # d.id
        /\ c.status = "break" /\ c.on_break
        /\ c.updated_at # c.created_at
        /\ c.checkout_time = NULL

\* C25 (as claimed): an apply-transition request of employee A changes a
\* record only if the record's user_id is A
C25_OwnRecordsOnly ==
    [][\A r \in Reqs : TransitionStep(r) =>
          \A c \in checkins : c.user_id # req[r].user => c \in checkins']_vars

\* C26 (as claimed): the date the handler computes for the duplicate check
\* and reports in the response is the date create_checkin stores as
\* checkin_date, and a request running alone that passes the duplicate check
\* is not turned down by the uniqueness constraint
C26_HandlerDateIsStoreDate ==
    /\ \A r \in Reqs : pc[r] = "post_respond" =>
           \A c \in RowsOfId(checkins, req[r].checkinId) :
               c.checkin_date = req[r].today
    /\ \A r \in Reqs : pc[r] = "post_create" =>
           ~UniqueViolation(checkins, req[r].user, now[1])

\* C24 (as claimed): DELETE /employee-feedbacks/:id removes the addressed
\* row when its requested_by is the authenticated user, and for any other
\* caller or a missing id it answers 404 and leaves the feedback store as
\* it was
C24_DeleteOwnFeedbackOnly ==
    [][\A r \in Reqs :
          (pc[r] = "feedback_delete" /\ pc'[r] = "done") =>
             LET own == {f \in employee_feedbacks :
                            f.id = req[r].id /\ f.requested_by = req[r].user}
             IN  IF own = {}
                 THEN /\ resp'[r].status = 404
                      /\ employee_feedbacks' = employee_feedbacks
                 ELSE employee_feedbacks' = employee_feedbacks \ own]_vars

\* no request to the document routes is being served
DocsQuiet == \A r \in Reqs : pc[r] \in {"idle", "done"}

C27_EmailExistsOnlyForEmail ==
    [][\A r \in Reqs :
          (pc[r] = "employee_insert" /\ pc'[r] = "done") =>
             /\ resp'[r].message = "Email already exists"
                   => \E u \in users : u.email = req[r].email
             /\ \A u \in users : u.employee_id # req[r].employeeId]_vars

\* C29 (as claimed): in the employee list response, for every page >= 1,
\* perPage >= 1 and total >= 0, last_page = ceil(total / perPage) and
\* to - from + 1 is the number of rows returned on that page
C29_MetaCountsRows ==
    list.rows # NULL =>
        /\ list.last_page * list.perPage >= list.total
        /\ (list.last_page - 1) * list.perPage < list.total \/ list.total = 0
        /\ list.total = 0 => list.last_page = 0
        /\ list.to - list.from + 1 = list.rows

\* no migration run is under way
BetweenRuns == \A p \in Runs : run[p] = "exited"

\* C30 (as claimed): between migration runs the 'initial_schema' marker
\* exists exactly when the schema, the sample data and the views and
\* functions were all created, and a run that finds the marker changes
\* nothing
C30_MarkerIffMigrated ==
    /\ BetweenRuns =>
          ("initial_schema" \in db
              <=> Migrated \ {"migrations", "initial_schema"} \subseteq db)
    /\ \A p \in Runs :
          (run[p] # "exited" /\ "initial_schema" \in db) => db = Migrated

\* why a later run cannot complete after a failure: once the schema exists
\* and no run that created it is under way, every run ends in createSchema
\* and the marker is never written
MigrationStuck ==
    []((BetweenRuns /\ "schema" \in db /\ "initial_schema" \notin db)
          => []("initial_schema" \notin db))

====
